---- MODULE Spec2Model ----
(***************************************************************************)
(* marvin.config: the Settings object (a pydantic BaseSettings), its       *)
(* construction pipeline (raw loading from the environment and the env     *)
(* file, per-field validators, the two root validators), its setter        *)
(* (validate_assignment), export_to_env_file and temporary_settings.       *)
(*                                                                         *)
(* Representation of Python values:                                        *)
(*   str / Path / SecretStr content   a TLA+ string                        *)
(*   bool                             BOOLEAN                              *)
(*   int                              an integer                           *)
(*   float                            an integer number of tenths          *)
(*   None or a value (Optional)       <<>> or <<v>>                        *)
(*   LLMBackend member                the member's value, a string         *)
(*   the nested chroma object         [kind, fields]                       *)
(***************************************************************************)
EXTENDS Integers, Sequences, FiniteSets, TLC

VARIABLES
    CHROMA_INSTALLED,  \* whether `import chromadb` succeeded
    environ,           \* os.environ: variable name -> <<>> (unset) or <<string>>
    dotenv,            \* the env file(s): key -> <<>> (no line) or <<string>>
    fs,                \* the directories that exist
    pc,                \* "start" | "ready" | "exported" | "reloaded"
    settings,          \* the live Settings object's __dict__, or NoSettings
    errors,            \* fields whose validation failed in the last construction
    warnings,          \* fields warned about in the last construction
    reloaded,          \* the Settings object a second process builds from the exported file
    stack,             \* active temporary_settings scopes, innermost last
    hook,              \* setup_logging calls made by the last operation
    last               \* the last operation and its outcome

vars == <<CHROMA_INSTALLED, environ, dotenv, fs, pc, settings, errors, warnings,
          reloaded, stack, hook, last>>

----------------------------------------------------------------------------
(* Strings *)

None == <<>>
Some(v) == <<v>>

startswith(s, p) == Len(s) >= Len(p) /\ SubSeq(s, 1, Len(p)) = p

Tail_(s) == SubSeq(s, 2, Len(s))
Head_(s) == SubSeq(s, 1, 1)

LowerLetters == <<"a","b","c","d","e","f","g","h","i","j","k","l","m",
                  "n","o","p","q","r","s","t","u","v","w","x","y","z">>
UpperLetters == <<"A","B","C","D","E","F","G","H","I","J","K","L","M",
                  "N","O","P","Q","R","S","T","U","V","W","X","Y","Z">>

MapChar(c, from, to) ==
    IF \E i \in 1..Len(from) : from[i] = c
    THEN to[CHOOSE i \in 1..Len(from) : from[i] = c]
    ELSE c

RECURSIVE MapChars(_, _, _)
MapChars(s, from, to) ==
    IF Len(s) = 0 THEN ""
    ELSE MapChar(Head_(s), from, to) \o MapChars(Tail_(s), from, to)

upper(s) == MapChars(s, LowerLetters, UpperLetters)
lower(s) == MapChars(s, UpperLetters, LowerLetters)

\* str.replace(old, new)
RECURSIVE replace(_, _, _)
replace(s, old, new) ==
    IF Len(s) < Len(old) THEN s
    ELSE IF SubSeq(s, 1, Len(old)) = old
         THEN new \o replace(SubSeq(s, Len(old) + 1, Len(s)), old, new)
         ELSE Head_(s) \o replace(Tail_(s), old, new)

Digits == <<"0","1","2","3","4","5","6","7","8","9">>
IsDigit(c) == \E i \in 1..10 : Digits[i] = c
DigitVal(c) == (CHOOSE i \in 1..10 : Digits[i] = c) - 1

RECURSIVE AllDigits(_)
AllDigits(s) == Len(s) = 0 \/ (IsDigit(Head_(s)) /\ AllDigits(Tail_(s)))

RECURSIVE DigitsVal(_, _)
DigitsVal(s, acc) ==
    IF Len(s) = 0 THEN acc ELSE DigitsVal(Tail_(s), 10 * acc + DigitVal(Head_(s)))

RECURSIVE NatStr(_)
NatStr(n) == IF n < 10 THEN Digits[n + 1] ELSE NatStr(n \div 10) \o Digits[(n % 10) + 1]

\* position of the first "." in s, 0 when there is none
RECURSIVE find(_, _, _)
find(s, c, i) ==
    IF i > Len(s) THEN 0 ELSE IF SubSeq(s, i, i) = c THEN i ELSE find(s, c, i + 1)

\* position of the last c in s, 0 when there is none
RECURSIVE rfind(_, _, _)
rfind(s, c, i) ==
    IF i = 0 THEN 0 ELSE IF SubSeq(s, i, i) = c THEN i ELSE rfind(s, c, i - 1)

----------------------------------------------------------------------------
(* pathlib.Path, by its string *)

is_absolute(p) == startswith(p, "/")

\* Path.__truediv__: an absolute right operand replaces the left one
joinpath(a, b) == IF is_absolute(b) THEN b ELSE a \o "/" \o b

\* Path.parent
parent(p) ==
    LET i == rfind(p, "/", Len(p))
    IN  IF i = 0 THEN "." ELSE IF i = 1 THEN "/" ELSE SubSeq(p, 1, i - 1)

\* the directories Path.mkdir(parents=True, exist_ok=True) makes sure exist
RECURSIVE mkdir(_)
mkdir(p) == IF p \in {".", "/"} THEN {p} ELSE {p} \cup mkdir(parent(p))

----------------------------------------------------------------------------
(* Field schema *)

Fields ==
    {"home", "test_mode", "verbose", "log_level", "log_console_width",
     "llm_model", "llm_backend", "llm_temperature",
     "llm_model_for_response_format", "embeddings_cache_path",
     "openai_api_key", "openai_organization", "chroma",
     "database_connection_url", "database_check_migration_version_on_startup",
     "bot_create_profile_picture", "bot_load_default_plugins"}

LLMBackend ==
    {"OpenAI", "AzureOpenAI", "OpenAIChat", "AzureOpenAIChat", "Anthropic",
     "HuggingFaceHub"}

LogLevels == {"DEBUG", "INFO", "WARNING", "ERROR", "CRITICAL"}

BoolFields ==
    {"test_mode", "verbose", "database_check_migration_version_on_startup",
     "bot_create_profile_picture", "bot_load_default_plugins"}

SecretFields == {"openai_api_key", "database_connection_url"}

DEFAULT_DB_CONNECTION_URL == "sqlite+aiosqlite:////$MARVIN_HOME/marvin.sqlite"

\* Path("~/.marvin").expanduser(), for a user whose home is /home/user
DefaultHome == "/home/user/.marvin"

\* ChromaSettings(): with chromadb its fields (persist_directory stands for
\* them), without it an empty BaseSettings
ChromaSettings(chroma_installed) ==
    [kind |-> "ChromaSettings",
     fields |-> IF chroma_installed THEN {<<"persist_directory", "chroma">>} ELSE {}]

\* the declared defaults, before validation (None is <<>>)
FieldDefault(f, chroma_installed) ==
    CASE f = "home" -> Some(DefaultHome)
      [] f = "test_mode" -> Some(FALSE)
      [] f = "verbose" -> Some(FALSE)
      [] f = "log_level" -> Some("INFO")
      [] f = "log_console_width" -> None
      [] f = "llm_model" -> Some("gpt-3.5-turbo")
      [] f = "llm_backend" -> None
      [] f = "llm_temperature" -> Some(8)
      [] f = "llm_model_for_response_format" -> None
      [] f = "embeddings_cache_path" -> Some("cache/embeddings.sqlite")
      [] f = "openai_api_key" -> None
      [] f = "openai_organization" -> None
      [] f = "chroma" -> Some(ChromaSettings(chroma_installed))
      [] f = "database_connection_url" -> Some(DEFAULT_DB_CONNECTION_URL)
      [] f = "database_check_migration_version_on_startup" -> Some(TRUE)
      [] f = "bot_create_profile_picture" -> Some(FALSE)
      [] f = "bot_load_default_plugins" -> Some(TRUE)

env_prefix == "MARVIN_"

\* f"{env_prefix}{field_name.upper()}", the variable of a field
EnvKeyOf == [f \in Fields |-> env_prefix \o upper(f)]

\* the environment variable names probed for a field, in priority order
env_names(f) ==
    IF f = "openai_api_key"
    THEN <<"MARVIN_OPENAI_API_KEY", "OPENAI_API_KEY">>
    ELSE <<EnvKeyOf[f]>>

EnvNames == {EnvKeyOf[f] : f \in Fields} \cup {"OPENAI_API_KEY"}

NoEnv == [k \in EnvNames |-> None]

----------------------------------------------------------------------------
(* Raw loader: pydantic's EnvSettingsSource *)

\* env_vars = {**dotenv_vars, **os.environ}
env_vars(env, file) == [k \in EnvNames |-> IF env[k] # None THEN env[k] ELSE file[k]]

\* the first name of env_names(f) that has a value
RawValue(f, env, file) ==
    LET names == env_names(f)
        ev == env_vars(env, file)
        hits == {i \in 1..Len(names) : ev[names[i]] # None}
    IN  IF hits = {} THEN None
        ELSE ev[names[CHOOSE i \in hits : \A j \in hits : i <= j]]

----------------------------------------------------------------------------
(* Type validators: a result is [ok, v] *)

Ok(v) == [ok |-> TRUE, v |-> v]
Err == [ok |-> FALSE, v |-> None]

bool_validator(s) ==
    LET l == lower(s)
    IN  IF l \in {"1", "on", "t", "true", "y", "yes"} THEN Ok(TRUE)
        ELSE IF l \in {"0", "off", "f", "false", "n", "no"} THEN Ok(FALSE)
        ELSE Err

int_validator(s) == IF Len(s) > 0 /\ AllDigits(s) THEN Ok(DigitsVal(s, 0)) ELSE Err

\* floats are tenths: "<digits>" or "<digits>.<digit>"
float_validator(s) ==
    LET dot == find(s, ".", 1)
    IN  IF dot = 0 THEN (IF Len(s) > 0 /\ AllDigits(s) THEN Ok(10 * DigitsVal(s, 0)) ELSE Err)
        ELSE LET ip == SubSeq(s, 1, dot - 1)
                 fp == SubSeq(s, dot + 1, Len(s))
             IN  IF Len(ip) > 0 /\ AllDigits(ip) /\ Len(fp) = 1 /\ AllDigits(fp)
                 THEN Ok(10 * DigitsVal(ip, 0) + DigitsVal(fp, 0))
                 ELSE Err

\* json.loads of a complex field's variable, on the strings str(dict) gives:
\* "{}" is JSON, the repr of a non-empty dict (single quotes) is not
json_loads(s) == IF s = "{}" THEN Ok({}) ELSE Err

\* the type validation of field f on value x; from_env: x is a string read
\* from the environment or the env file
type_validator(f, x, from_env, chroma_installed) ==
    CASE f \in BoolFields -> IF from_env THEN bool_validator(x) ELSE Ok(x)
      [] f = "log_console_width" -> IF from_env THEN int_validator(x) ELSE Ok(x)
      [] f = "llm_temperature" -> IF from_env THEN float_validator(x) ELSE Ok(x)
      [] f = "log_level" -> IF x \in LogLevels THEN Ok(x) ELSE Err
      [] f = "llm_backend" -> IF x \in LLMBackend THEN Ok(x) ELSE Err
      [] f = "chroma" ->
            IF from_env
            THEN (IF json_loads(x).ok THEN Ok(ChromaSettings(chroma_installed)) ELSE Err)
            ELSE Ok(x)
      [] OTHER -> Ok(x)

----------------------------------------------------------------------------
(* Field validators *)

\* fields declared with a None default (or Optional): None is allowed
OptionalFields == {"log_console_width", "openai_api_key", "openai_organization"}

\* the prefix table with the text-ada row left out
infer_llm_backend_without_ada(model) ==
    IF startswith(model, "gpt-3") \/ startswith(model, "gpt-4") THEN Ok("OpenAIChat")
    ELSE IF \/ startswith(model, "text-davinci")
            \/ startswith(model, "text-curie")
            \/ startswith(model, "text-babbage")
         THEN Ok("OpenAI")
    ELSE IF startswith(model, "claude") THEN Ok("Anthropic")
    ELSE Err

\* the module-level infer_llm_backend: Ok(backend), or Err for the ValueError
infer_llm_backend(model) ==
    IF startswith(model, "gpt-3") \/ startswith(model, "gpt-4") THEN Ok("OpenAIChat")
    ELSE IF \/ startswith(model, "text-davinci")
            \/ startswith(model, "text-curie")
            \/ startswith(model, "text-babbage")
            \/ startswith(model, "text-ada")
         THEN Ok("OpenAI")
    ELSE IF startswith(model, "claude") THEN Ok("Anthropic")
    ELSE Err

\* a validator's return value r as the field's new value, its error kept
returned(r) == IF r.ok THEN Ok(Some(r.v)) ELSE Err

\* @validator("llm_backend", pre=True, always=True); v is None or Some(x)
Settings_infer_llm_backend(v, values) ==
    IF v = None THEN returned(infer_llm_backend(values["llm_model"])) ELSE Ok(v)

\* @validator("llm_model_for_response_format", pre=True, always=True)
infer_llm_model_for_response_format(v, values) ==
    IF v = None
    THEN IF startswith(values["llm_model"], "gpt-4")
         THEN Ok(Some("gpt-3.5-turbo"))
         ELSE Ok(Some(values["llm_model"]))
    ELSE Ok(v)

\* warning only about an empty key, not about a missing one
warn_only_if_empty(v) == v # None /\ v[1] = ""

\* @validator("openai_api_key"): whether the warning is printed (`not v`:
\* None, or a SecretStr of length 0); the value is returned as it is
warn_if_missing_api_keys(v) == v = None \/ v[1] = ""

\* the outcome of a field whose validation failed
Invalid == [ok |-> FALSE, v |-> None, warn |-> FALSE]

\* the validators declared with pre=True
pre_validators(f, v, values) ==
    CASE f = "llm_backend" -> Settings_infer_llm_backend(v, values)
      [] f = "llm_model_for_response_format" ->
             infer_llm_model_for_response_format(v, values)
      [] OTHER -> Ok(v)

\* the post validators, on the outcome typed of the type validator
post_validators(f, typed) ==
    IF ~typed.ok THEN Invalid
    ELSE [ok |-> TRUE,
          v |-> IF f \in OptionalFields THEN Some(typed.v) ELSE typed.v,
          warn |-> f = "openai_api_key" /\ warn_if_missing_api_keys(Some(typed.v))]

\* ModelField.validate after the pre validators gave pre: None handling, the
\* type validator, post validators
validate_after_pre(f, pre, from_env, chroma_installed) ==
    IF ~pre.ok THEN Invalid
    ELSE IF pre.v = None /\ f \notin OptionalFields THEN Invalid
    ELSE IF pre.v = None
    THEN [ok |-> TRUE, v |-> None,
          warn |-> f = "openai_api_key" /\ warn_if_missing_api_keys(None)]
    ELSE post_validators(f, type_validator(f, pre.v[1], from_env, chroma_installed))

\* ModelField.validate.  v is None or Some(x); the result is [ok, v, warn]
\* with v the value stored in the object
field_validate(f, v, from_env, values, chroma_installed) ==
    validate_after_pre(f, pre_validators(f, v, values), from_env /\ v # None,
                       chroma_installed)

----------------------------------------------------------------------------
(* Root validators *)

\* the value of chroma["persist_directory"]
persist_directory(chroma) == (CHOOSE p \in chroma.fields : p[1] = "persist_directory")[2]

\* @root_validator initial_setup: [values, dirs], dirs the directories made
initial_setup(values, chroma_installed) ==
    LET home == values["home"]
        ecp == IF ~is_absolute(values["embeddings_cache_path"])
               THEN joinpath(home, values["embeddings_cache_path"])
               ELSE values["embeddings_cache_path"]
        chroma == IF chroma_installed /\ ~is_absolute(persist_directory(values["chroma"]))
                  THEN [kind |-> "ChromaSettings",
                        fields |-> {<<"persist_directory",
                                      joinpath(home, persist_directory(values["chroma"]))>>}]
                  ELSE values["chroma"]
        url == replace(values["database_connection_url"], "$MARVIN_HOME", home)
    IN  [values |-> ("embeddings_cache_path" :> ecp) @@ ("chroma" :> chroma)
                    @@ ("database_connection_url" :> url) @@ values,
         dirs |-> mkdir(home) \cup mkdir(parent(ecp))]

\* the same cluster with one override forgotten
test_mode_settings_keeps_backend(values) ==
    IF values["test_mode"]
    THEN ("log_level" :> "DEBUG") @@ ("verbose" :> TRUE)
         @@ ("bot_create_profile_picture" :> FALSE)
         @@ ("bot_load_default_plugins" :> FALSE)
         @@ ("llm_temperature" :> 0)
         @@ ("llm_model" :> "gpt-3.5-turbo")
         @@ ("database_check_migration_version_on_startup" :> FALSE)
         @@ values
    ELSE values

\* @root_validator test_mode_settings
test_mode_settings(values) ==
    IF values["test_mode"]
    THEN ("log_level" :> "DEBUG") @@ ("verbose" :> TRUE)
         @@ ("bot_create_profile_picture" :> FALSE)
         @@ ("bot_load_default_plugins" :> FALSE)
         @@ ("llm_temperature" :> 0)
         @@ ("llm_model" :> "gpt-3.5-turbo")
         @@ ("llm_backend" :> "OpenAIChat")
         @@ ("database_check_migration_version_on_startup" :> FALSE)
         @@ values
    ELSE values

\* test_mode_settings not run
root_validators_without_test_mode(values, chroma_installed) ==
    initial_setup(values, chroma_installed)

\* the post root validators in registration order
root_validators(values, chroma_installed) ==
    LET a == initial_setup(values, chroma_installed)
    IN  [values |-> test_mode_settings(a.values), dirs |-> a.dirs]

----------------------------------------------------------------------------
(* Construction: Settings() *)

FieldOrder ==
    <<"home", "test_mode", "verbose", "log_level", "log_console_width",
      "llm_model", "llm_backend", "llm_temperature",
      "llm_model_for_response_format", "embeddings_cache_path",
      "openai_api_key", "openai_organization", "chroma",
      "database_connection_url", "database_check_migration_version_on_startup",
      "bot_create_profile_picture", "bot_load_default_plugins">>

NoSettings == [none |-> TRUE]

\* the value validated for field f: the one read from the sources, or the
\* declared default (validate_all)
field_input(f, input, chroma_installed) ==
    IF input[f] # None THEN input[f] ELSE FieldDefault(f, chroma_installed)

\* validate_model's bookkeeping for field f with outcome r
record_result(acc, f, r) ==
    [values |-> IF r.ok THEN (f :> r.v) @@ acc.values ELSE acc.values,
     errors |-> IF r.ok THEN acc.errors ELSE acc.errors \cup {f},
     warnings |-> IF r.warn THEN acc.warnings \cup {f} ELSE acc.warnings]

\* validate_model's loop over the fields in declaration order; acc is
\* [values, errors, warnings]
RECURSIVE validate_fields(_, _, _, _)
validate_fields(i, acc, input, chroma_installed) ==
    IF i > Len(FieldOrder) THEN acc
    ELSE validate_fields(i + 1,
             record_result(acc, FieldOrder[i],
                 field_validate(FieldOrder[i],
                                field_input(FieldOrder[i], input, chroma_installed),
                                input[FieldOrder[i]] # None, acc.values,
                                chroma_installed)),
             input, chroma_installed)

\* BaseSettings._build_values: what the sources give for each field
build_values(env, file) == [f \in Fields |-> RawValue(f, env, file)]

\* validate_model after the loop gave a: the post root validators
validate_roots(a, chroma_installed) ==
    [ok |-> a.errors = {},
     values |-> IF a.errors = {}
                THEN root_validators(a.values, chroma_installed).values
                ELSE NoSettings,
     errors |-> a.errors, warnings |-> a.warnings,
     dirs |-> root_validators(a.values, chroma_installed).dirs]

\* validate_model(Settings, input): [ok, values, errors, warnings, dirs].  A
\* complex field whose variable is not JSON fails while the sources are read,
\* before validation.
validate_model(input, chroma_installed) ==
    IF input["chroma"] # None /\ ~json_loads(input["chroma"][1]).ok
    THEN [ok |-> FALSE, values |-> NoSettings, errors |-> {"chroma"},
          warnings |-> {}, dirs |-> {}]
    ELSE validate_roots(
             validate_fields(1, [values |-> <<>>, errors |-> {}, warnings |-> {}],
                             input, chroma_installed),
             chroma_installed)

\* Settings()
Construct(env, file, chroma_installed) ==
    validate_model(build_values(env, file), chroma_installed)

----------------------------------------------------------------------------
(* Export *)

\* BaseModel.dict(): a nested model becomes a plain dict, recursively; every
\* other value is kept (a SecretStr stays a SecretStr)
dict(d) ==
    [k \in DOMAIN d |->
        IF k = "chroma" THEN [kind |-> "dict", fields |-> d[k].fields] ELSE d[k]]

\* str() of a float held as tenths
float_str(t) == NatStr(t \div 10) \o "." \o NatStr(t % 10)

\* str() of a dict of strings
dict_str(fields) ==
    IF fields = {} THEN "{}"
    ELSE "{'persist_directory': '"
         \o (CHOOSE p \in fields : p[1] = "persist_directory")[2] \o "'}"

\* the text export_to_env_file writes for field f holding value: str(value),
\* or the secret's plain value when value is a SecretStr (None is not one)
env_value(f, value) ==
    CASE f \in OptionalFields /\ value = None -> "None"
      [] f \in OptionalFields /\ value # None /\ f \in SecretFields -> value[1]
      [] f \in OptionalFields /\ value # None /\ f = "log_console_width" -> NatStr(value[1])
      [] f \in OptionalFields /\ value # None /\ f = "openai_organization" -> value[1]
      [] f \notin OptionalFields /\ f \in SecretFields -> value
      [] f \in BoolFields -> IF value THEN "True" ELSE "False"
      [] f = "llm_temperature" -> float_str(value)
      [] f = "llm_backend" -> "LLMBackend." \o value
      [] f = "chroma" -> dict_str(value.fields)
      [] OTHER -> value

\* the file export_to_env_file leaves: one line per field of self.dict()
export_to_env_file(s) ==
    LET d == dict(s)
    IN  [k \in EnvNames |->
            IF \E f \in DOMAIN d \cap Fields : EnvKeyOf[f] = k
            THEN LET f == CHOOSE g \in DOMAIN d \cap Fields : EnvKeyOf[g] = k
                 IN  Some(env_value(f, d[f]))
            ELSE None]

----------------------------------------------------------------------------
(* Inputs *)

\* nesting depth of temporary_settings scopes explored
MaxDepth == 2

ModelNames ==
    {"gpt-3.5-turbo", "gpt-4", "gpt-4-32k", "text-davinci-003", "text-curie-001",
     "text-babbage-001", "text-ada-001", "claude-v1",
     "gpt-2", "text-embedding-ada-002", "llama-2", "clau", "GPT-4", "my-gpt-4"}

Opt(S) == {None} \cup {Some(x) : x \in S}

\* an environment: NoEnv with the variables of e set
WithEnv(e) == [k \in EnvNames |-> IF k \in DOMAIN e THEN e[k] ELSE None]

\* model and backend resolution
EnvsLLM ==
    {WithEnv(e) : e \in
        [MARVIN_TEST_MODE : Opt({"1"}),
         MARVIN_LLM_MODEL : Opt(ModelNames),
         MARVIN_LLM_BACKEND : Opt({"Anthropic", "OpenAI", "bogus"}),
         MARVIN_LLM_MODEL_FOR_RESPONSE_FORMAT : Opt({"gpt-4"})]}

\* the test-mode cluster
EnvsMode ==
    {WithEnv(e) : e \in
        [MARVIN_TEST_MODE : Opt({"true"}),
         MARVIN_VERBOSE : Opt({"False"}),
         MARVIN_LOG_LEVEL : Opt({"ERROR", "TRACE"}),
         MARVIN_LLM_TEMPERATURE : Opt({"0.5", "hot"}),
         MARVIN_LLM_MODEL : Opt({"claude-v1"}),
         MARVIN_LLM_BACKEND : Opt({"HuggingFaceHub"}),
         MARVIN_BOT_CREATE_PROFILE_PICTURE : Opt({"True"}),
         MARVIN_BOT_LOAD_DEFAULT_PLUGINS : Opt({"yes"}),
         MARVIN_DATABASE_CHECK_MIGRATION_VERSION_ON_STARTUP : Opt({"True"})]}

\* paths
EnvsPath ==
    {WithEnv(e) : e \in
        [MARVIN_HOME : Opt({"/srv/marvin", "var/marvin"}),
         MARVIN_EMBEDDINGS_CACHE_PATH : Opt({"/data/emb.sqlite", "emb/cache.sqlite"}),
         MARVIN_DATABASE_CONNECTION_URL : Opt({"sqlite:///$MARVIN_HOME/m.db"}),
         MARVIN_TEST_MODE : Opt({"1"})]}

\* the API key's sources, and the optional fields
EnvsKey ==
    {WithEnv(e) : e \in
        [MARVIN_OPENAI_API_KEY : Opt({"sk-a"}),
         OPENAI_API_KEY : Opt({"sk-b"}),
         MARVIN_OPENAI_ORGANIZATION : Opt({"org-1"}),
         MARVIN_LOG_CONSOLE_WIDTH : Opt({"120"}),
         MARVIN_LLM_MODEL : Opt({"llama-2"})]}

FilesKey ==
    {WithEnv(e) : e \in
        [MARVIN_OPENAI_API_KEY : Opt({"sk-c"}),
         OPENAI_API_KEY : Opt({"sk-d"})]}

Environs == EnvsLLM \cup EnvsMode \cup EnvsPath \cup EnvsKey

\* the directories that exist before the process starts
InitialDirs == {"/", "/home", "/home/user", "."}

NoHook == [n |-> 0, level |-> "-"]
NoOp == [op |-> "none", name |-> "", v |-> None, ok |-> TRUE]

----------------------------------------------------------------------------
(* Process start, export and reload *)

InitStart ==
    /\ CHROMA_INSTALLED \in BOOLEAN
    /\ \/ environ \in Environs /\ dotenv = NoEnv
       \/ environ \in EnvsKey /\ dotenv \in FilesKey
    /\ fs = InitialDirs
    /\ pc = "start"
    /\ settings = NoSettings
    /\ errors = {}
    /\ warnings = {}
    /\ reloaded = NoSettings
    /\ stack = <<>>
    /\ hook = NoHook
    /\ last = NoOp

\* settings = Settings(), at import
Import ==
    /\ pc = "start"
    /\ \E r \in {Construct(environ, dotenv, CHROMA_INSTALLED)} :
           /\ settings' = r.values
           /\ errors' = r.errors
           /\ warnings' = r.warnings
           /\ fs' = fs \cup r.dirs
           /\ last' = [op |-> "Settings", name |-> "", v |-> None, ok |-> r.ok]
    /\ pc' = "ready"
    /\ hook' = NoHook
    /\ UNCHANGED <<CHROMA_INSTALLED, environ, dotenv, reloaded, stack>>

\* settings.export_to_env_file(), to the env file the settings are read from
Export ==
    /\ pc = "ready"
    /\ settings # NoSettings
    /\ dotenv' = export_to_env_file(settings)
    /\ pc' = "exported"
    /\ last' = [op |-> "export_to_env_file", name |-> "", v |-> None, ok |-> TRUE]
    /\ hook' = NoHook
    /\ UNCHANGED <<CHROMA_INSTALLED, environ, fs, settings, errors, warnings, reloaded, stack>>

\* Settings() in a process with no environment variables, from the file alone
Reload ==
    /\ pc = "exported"
    /\ \E r \in {Construct(NoEnv, dotenv, CHROMA_INSTALLED)} :
           /\ reloaded' = r.values
           /\ errors' = r.errors
           /\ warnings' = r.warnings
           /\ fs' = fs \cup r.dirs
           /\ last' = [op |-> "Settings", name |-> "", v |-> None, ok |-> r.ok]
    /\ pc' = "reloaded"
    /\ hook' = NoHook
    /\ UNCHANGED <<CHROMA_INSTALLED, environ, dotenv, settings, stack>>

NextConstruct == Import \/ Export \/ Reload

SpecConstruct == InitStart /\ [][NextConstruct]_vars

----------------------------------------------------------------------------
(* The live object: the setter and temporary_settings *)

LiveEnvs ==
    {WithEnv(e) : e \in
        [MARVIN_TEST_MODE : Opt({"1"})]}

\* the state after `settings = Settings()` succeeded at import
Init ==
    /\ CHROMA_INSTALLED \in BOOLEAN
    /\ environ \in LiveEnvs
    /\ dotenv = NoEnv
    /\ \E r \in {Construct(environ, dotenv, CHROMA_INSTALLED)} :
           /\ r.ok
           /\ settings = r.values
           /\ errors = r.errors
           /\ warnings = r.warnings
           /\ fs = InitialDirs \cup r.dirs
    /\ pc = "ready"
    /\ reloaded = NoSettings
    /\ stack = <<>>
    /\ hook = NoHook
    /\ last = [op |-> "Settings", name |-> "", v |-> None, ok |-> TRUE]

\* Settings.__setattr__(name, value), value given as None or Some(x).
\* BaseModel.__setattr__ under validate_assignment: an unknown name is refused
\* (extra = forbid); the field's validators run on the value with the other
\* values; the post root validators run on {**__dict__, name: value}; the
\* result replaces __dict__.  Then the log_level hook.
SetAttr(name, v) ==
    /\ settings # NoSettings
    /\ LET without == [k \in DOMAIN settings \ {name} |-> settings[k]]
           r == IF name \in Fields
                THEN field_validate(name, v, FALSE, without, CHROMA_INSTALLED)
                ELSE [ok |-> FALSE, v |-> None, warn |-> FALSE]
           rv == root_validators((name :> r.v) @@ settings, CHROMA_INSTALLED)
       IN  /\ settings' = IF r.ok THEN rv.values ELSE settings
           /\ fs' = IF r.ok THEN fs \cup rv.dirs ELSE fs
           /\ hook' = IF r.ok /\ name = "log_level"
                      THEN [n |-> 1, level |-> rv.values["log_level"]]
                      ELSE NoHook
           /\ last' = [op |-> "setattr", name |-> name, v |-> v, ok |-> r.ok]
    /\ UNCHANGED <<CHROMA_INSTALLED, environ, dotenv, pc, errors, warnings, reloaded, stack>>

\* temporary_settings(**kwargs) up to its yield.  A frame holds the
\* generator's locals; at_entry is history, kept to state the properties:
\* __dict__ as it was when the scope was entered.
Enter(kwargs) ==
    /\ settings # NoSettings
    /\ Len(stack) < MaxDepth
    /\ stack' = Append(stack, [old_settings |-> dict(settings), kwargs |-> kwargs,
                               at_entry |-> settings])
    /\ settings' = kwargs @@ settings
    /\ hook' = NoHook
    /\ last' = [op |-> "enter", name |-> "", v |-> None, ok |-> TRUE]
    /\ UNCHANGED <<CHROMA_INSTALLED, environ, dotenv, fs, pc, errors, warnings, reloaded>>

\* the finally block of the innermost scope; raised: the body raised an
\* error, which propagates after the block
Exit(raised) ==
    /\ stack # <<>>
    /\ settings' = stack[Len(stack)].old_settings
    /\ stack' = SubSeq(stack, 1, Len(stack) - 1)
    /\ hook' = NoHook
    /\ last' = [op |-> "exit", name |-> "", v |-> None, ok |-> ~raised]
    /\ UNCHANGED <<CHROMA_INSTALLED, environ, dotenv, fs, pc, errors, warnings, reloaded>>

\* nested scopes, with bodies that assign through the setter
Next ==
    \/ \E v \in {"ERROR", "TRACE"} : SetAttr("log_level", Some(v))
    \/ SetAttr("test_mode", Some(TRUE))
    \/ Enter([log_level |-> "ERROR"])
    \/ Enter([llm_temperature |-> 2, scratch |-> "x"])
    \/ Enter([test_mode |-> TRUE])
    \/ \E raised \in BOOLEAN : Exit(raised)

Spec == Init /\ [][Next]_vars

\* temporary_settings entered outside any other scope
EnterOuter(kwargs) == stack = <<>> /\ Enter(kwargs)

\* the setter on every kind of field, outside and inside one scope
NextSetter ==
    \/ \E v \in BOOLEAN : SetAttr("test_mode", Some(v))
    \/ SetAttr("log_level", Some("ERROR"))
    \/ SetAttr("llm_temperature", Some(5))
    \/ SetAttr("embeddings_cache_path", Some("emb/c.sqlite"))
    \/ SetAttr("llm_backend", Some("bogus"))
    \/ SetAttr("no_such_field", Some("x"))
    \/ EnterOuter([test_mode |-> TRUE])
    \/ EnterOuter([embeddings_cache_path |-> "tmp/e.sqlite"])
    \/ \E raised \in BOOLEAN : Exit(raised)

SpecSetter == Init /\ [][NextSetter]_vars

----------------------------------------------------------------------------
(* Properties of construction *)

\* what the sources supply for field f at process start: None or Some(string)
Supplied(f) == RawValue(f, environ, dotenv)

Imported == pc = "ready" /\ settings # NoSettings

TestModeSupplied == Supplied("test_mode") \in {Some("1"), Some("true")}

TestValues ==
    [llm_temperature |-> 0, llm_model |-> "gpt-3.5-turbo", llm_backend |-> "OpenAIChat",
     log_level |-> "DEBUG", verbose |-> TRUE, bot_create_profile_picture |-> FALSE,
     bot_load_default_plugins |-> FALSE,
     database_check_migration_version_on_startup |-> FALSE]

\* C3: with test_mode true, whatever is supplied for the eight fields of the
\* cluster, a constructed object holds the fixed test values in all of them
\* (the override is the pipeline's last step), and supplying type-valid values
\* for them, llm_backend included, never makes construction fail.
C3_TestModeWins ==
    (pc = "ready" /\ TestModeSupplied) =>
        /\ settings # NoSettings =>
              \A f \in DOMAIN TestValues : settings[f] = TestValues[f]
        /\ ( /\ Supplied("llm_backend") \in {Some(b) : b \in LLMBackend}
             /\ Supplied("log_level") \in Opt(LogLevels)
             /\ Supplied("llm_temperature") \in Opt({"0.5"}) ) => settings # NoSettings

C3_Witness ==
    /\ Imported /\ TestModeSupplied
    /\ Supplied("llm_temperature") = Some("0.5")
    /\ Supplied("llm_model") = Some("claude-v1")
    /\ Supplied("llm_backend") = Some("HuggingFaceHub")
    /\ Supplied("log_level") = Some("ERROR")
    /\ Supplied("verbose") = Some("False")
    /\ Supplied("bot_create_profile_picture") = Some("True")
    /\ Supplied("bot_load_default_plugins") = Some("yes")
    /\ Supplied("database_check_migration_version_on_startup") = Some("True")
    /\ settings.llm_backend = "OpenAIChat"

\* the model name the backend is inferred from
SuppliedModel ==
    IF Supplied("llm_model") = None THEN "gpt-3.5-turbo" ELSE Supplied("llm_model")[1]

ChatPrefixes == {"gpt-3", "gpt-4"}
CompletionPrefixes == {"text-davinci", "text-curie", "text-babbage", "text-ada"}
AnthropicPrefixes == {"claude"}
HasPrefix(m, P) == \E p \in P : Len(m) >= Len(p) /\ SubSeq(m, 1, Len(p)) = p
Recognised(m) == HasPrefix(m, ChatPrefixes \cup CompletionPrefixes \cup AnthropicPrefixes)
DocumentedBackend(m) ==
    CASE HasPrefix(m, ChatPrefixes) -> "OpenAIChat"
      [] HasPrefix(m, CompletionPrefixes) -> "OpenAI"
      [] HasPrefix(m, AnthropicPrefixes) -> "Anthropic"
      [] OTHER -> "none"

\* C4 as stated: without an explicit llm_backend the resolved backend is the
\* documented one for the model's prefix and construction fails for any other
\* model; an explicit llm_backend is kept unchanged and inference never fails.
C4_BackendResolution_AsStated ==
    pc = "ready" =>
        /\ (Supplied("llm_backend") = None /\ Recognised(SuppliedModel)) =>
              /\ "llm_backend" \notin errors
              /\ settings # NoSettings => settings.llm_backend = DocumentedBackend(SuppliedModel)
        /\ (Supplied("llm_backend") = None /\ ~Recognised(SuppliedModel)) =>
              settings = NoSettings /\ "llm_backend" \in errors
        /\ Supplied("llm_backend") \in {Some(b) : b \in LLMBackend} =>
              /\ "llm_backend" \notin errors
              /\ settings # NoSettings => settings.llm_backend = Supplied("llm_backend")[1]

\* C4 amended: the same with test_mode false; with test_mode true the
\* backend of a constructed object is OpenAIChat, and construction still
\* fails for an unrecognised model without an explicit backend.
C4_BackendResolution ==
    pc = "ready" =>
        /\ (Supplied("llm_backend") = None /\ Recognised(SuppliedModel)) =>
              /\ "llm_backend" \notin errors
              /\ settings # NoSettings =>
                    settings.llm_backend =
                        IF settings.test_mode THEN "OpenAIChat"
                        ELSE DocumentedBackend(SuppliedModel)
        /\ (Supplied("llm_backend") = None /\ ~Recognised(SuppliedModel)) =>
              settings = NoSettings /\ "llm_backend" \in errors
        /\ Supplied("llm_backend") \in {Some(b) : b \in LLMBackend} =>
              /\ "llm_backend" \notin errors
              /\ settings # NoSettings =>
                    settings.llm_backend =
                        IF settings.test_mode THEN "OpenAIChat"
                        ELSE Supplied("llm_backend")[1]

C4_Witness ==
    /\ Imported /\ ~settings.test_mode
    /\ Supplied("llm_backend") = None
    /\ Supplied("llm_model") = Some("text-ada-001")
    /\ settings.llm_backend = "OpenAI"

\* C5: without an explicit llm_model_for_response_format the resolved one is
\* "gpt-3.5-turbo" when the object's resolved llm_model starts with "gpt-4" and
\* the object's resolved llm_model otherwise; an explicit one is kept.
C5_SecondaryModel ==
    Imported =>
        IF Supplied("llm_model_for_response_format") = None
        THEN settings.llm_model_for_response_format =
                 IF HasPrefix(settings.llm_model, {"gpt-4"})
                 THEN "gpt-3.5-turbo" ELSE settings.llm_model
        ELSE settings.llm_model_for_response_format =
                 Supplied("llm_model_for_response_format")[1]

\* C6: a constructed object has an absolute home and an absolute
\* embeddings_cache_path; a relative supplied cache path is home joined with
\* it, an absolute one is unchanged; home and the cache path's parent exist.
C6_PathInvariant ==
    Imported =>
        LET given == Supplied("embeddings_cache_path")
            rel == IF given = None THEN "cache/embeddings.sqlite" ELSE given[1]
        IN  /\ SubSeq(settings.home, 1, 1) = "/"
            /\ SubSeq(settings.embeddings_cache_path, 1, 1) = "/"
            /\ settings.embeddings_cache_path =
                  IF SubSeq(rel, 1, 1) = "/" THEN rel ELSE settings.home \o "/" \o rel
            /\ settings.home \in fs
            /\ \E d \in fs : settings.embeddings_cache_path
                                \in {d \o "/emb.sqlite", d \o "/cache.sqlite",
                                     d \o "/embeddings.sqlite"}

KeySources ==
    {environ["MARVIN_OPENAI_API_KEY"], environ["OPENAI_API_KEY"],
     dotenv["MARVIN_OPENAI_API_KEY"], dotenv["OPENAI_API_KEY"]}

\* C8: a missing openai_api_key never fails construction: with no value from
\* any source the warning is emitted and the object, when the other fields are
\* valid, is constructed with the key unset; with a (non-empty) key from some
\* source no warning is emitted.
C8_MissingKeyWarning ==
    pc = "ready" =>
        /\ "openai_api_key" \notin errors
        /\ (settings = NoSettings) = (errors # {})
        /\ KeySources = {None} =>
              /\ "openai_api_key" \in warnings
              /\ settings # NoSettings => settings.openai_api_key = None
        /\ KeySources # {None} =>
              /\ "openai_api_key" \notin warnings
              /\ settings # NoSettings => settings.openai_api_key \in KeySources \ {None}

C8_Witness ==
    /\ Imported
    /\ KeySources = {None}
    /\ "openai_api_key" \in warnings
    /\ settings.openai_api_key = None

\* C9: exporting a constructed object and constructing a new one from the
\* file alone succeeds and reproduces every field.
C9_RoundTrip ==
    pc = "reloaded" => reloaded # NoSettings /\ reloaded = settings

----------------------------------------------------------------------------
(* Properties of the live object *)

IsExit == last'.op = "exit"
Innermost == stack[Len(stack)]

\* C1: after a scope exits, whatever its overrides and its body (normal
\* return, error, assignments to other fields), the object has the fields it
\* had on entry, each with its value on entry, chroma included.
C1_ScopeRestoration ==
    [][IsExit =>
          /\ DOMAIN settings' = DOMAIN Innermost.at_entry
          /\ \A f \in DOMAIN Innermost.at_entry : settings'[f] = Innermost.at_entry[f]]_vars

\* C2: exiting a scope B nested in a scope A leaves every field as it was
\* when B was entered (A's overrides still in effect) and leaves A's own
\* snapshot alone, so that A's exit can restore A's state on entry.
C2_NestedScopes ==
    [][(IsExit /\ Len(stack) >= 2) =>
          /\ settings' = Innermost.at_entry
          /\ stack' = SubSeq(stack, 1, Len(stack) - 1)]_vars

\* C7: every operation that changes log_level on the live object calls
\* setup_logging once, after the new level is in place; a rejected assignment
\* changes nothing and calls nothing.
C7_LoggingHook ==
    [][/\ settings'.log_level # settings.log_level =>
              hook'.n = 1 /\ hook'.level = settings'.log_level
       /\ (last'.op = "setattr" /\ ~last'.ok) =>
              hook'.n = 0 /\ settings'.log_level = settings.log_level]_vars

IsAssign == last'.op = "setattr" /\ last'.name # "log_level"
Assigned == last'.v[1]

\* C10 as stated: a type-valid assignment to a field other than log_level
\* changes exactly that field, which reads back the assigned value, and does
\* not call the hook; a type-invalid assignment leaves every field unchanged.
C10_SetterFrame_AsStated ==
    [][IsAssign =>
          IF last'.ok
          THEN /\ settings'[last'.name] = Assigned
               /\ DOMAIN settings' = DOMAIN settings
               /\ \A g \in DOMAIN settings \ {last'.name} : settings'[g] = settings[g]
               /\ hook'.n = 0
          ELSE settings' = settings /\ hook'.n = 0]_vars

\* field g after an accepted assignment holds `was`, unless the root
\* validators, which the setter re-runs on the whole object, rewrite it: a
\* field of the test-mode cluster holds its test value when test_mode is true
\* afterwards, and a relative embeddings_cache_path is joined to home
AfterValidators(g, was) ==
    \/ settings'[g] = was
    \/ settings'.test_mode /\ g \in DOMAIN TestValues /\ settings'[g] = TestValues[g]
    \/ /\ g = "embeddings_cache_path"
       /\ SubSeq(was, 1, 1) # "/"
       /\ settings'[g] = settings'.home \o "/" \o was

\* C10 amended: a type-valid assignment to a field other than log_level
\* stores the value and re-runs the root validators on the whole object: the
\* assigned field holds the assigned value and every other field its old
\* value, except for what the root validators rewrite; with test_mode true
\* afterwards the whole cluster holds its test values; the hook is not called;
\* a type-invalid assignment leaves every field unchanged.
C10_SetterFrame ==
    [][IsAssign =>
          IF last'.ok
          THEN /\ AfterValidators(last'.name, Assigned)
               /\ DOMAIN settings' = DOMAIN settings
               /\ \A g \in DOMAIN settings \ {last'.name} : AfterValidators(g, settings[g])
               /\ settings'.test_mode =>
                     \A f \in DOMAIN TestValues : settings'[f] = TestValues[f]
               /\ hook'.n = 0
          ELSE settings' = settings /\ hook'.n = 0]_vars

C10_Witness ==
    /\ last.op = "setattr" /\ last.name = "llm_temperature" /\ last.ok
    /\ last.v = Some(5)
    /\ settings.test_mode
    /\ settings.llm_temperature = 0

====
